---- MODULE Spec2Model ----
(***************************************************************************)
(* Model of the LR1120 host driver: the status decoder (src/src/status.rs) *)
(* and the command/response transaction sequences of the driver methods   *)
(* (src/src/system.rs, crypto.rs, gnss.rs, wifi_scan.rs, radio.rs).        *)
(***************************************************************************)
EXTENDS Integers, Naturals, Sequences, FiniteSets, TLC

VARIABLES
    bytes,      \* status decoder: the two response bytes under decoding
    decoded,    \* status decoder: the Status values built so far, per constructor
    snap,       \* interrupt decoder: snapshot a as 4 response bytes, snapshot b as a u32
    intr,       \* interrupt decoder: the Intr values built so far
    fin,        \* encoders and iterators: the arguments of the function under study
    fout,       \* encoders and iterators: what the function has produced so far
    busyPin,    \* TRUE when a dedicated busy pin is wired (BusyPin implementation)
    nss,        \* chip-select line: "high" (released) or "low" (asserted)
    spi,        \* SPI bus: "idle" or "active" (a transfer is in progress)
    chip,       \* chip readiness: polls it still reads busy, or stuck busy
    call,       \* the driver method being executed and its argument
    prog,       \* the steps of the method being executed
    pc,         \* position in prog (0: no method is executing)
    elapsed,    \* time waited so far by the current wait_ready
    result,     \* result of the last finished method ("none" while one runs)
    trace,      \* bus and readiness events of the current method, in order
    polls,      \* readiness samples taken since the last write frame ended
    need,       \* busy duration the chip started with when the last write frame ended
    rsp,        \* first two bytes shifted in by the last transfer of the current method
    buf,        \* transaction buffer region about to be transferred: "zero" or "data"
    mosi        \* what the read phase of the current method shifted out: "none", "zero" or "data"

xvars == <<busyPin, nss, spi, chip, call, prog, pc, elapsed, result, trace, polls,
           need, rsp, buf, mosi>>
dvars == <<bytes, decoded, snap, intr, fin>>
vars == <<bytes, decoded, snap, intr, fin, fout, busyPin, nss, spi, chip, call, prog, pc, elapsed, result,
          trace, polls, need, rsp, buf, mosi>>

(***************************************************************************)
(* Fixed-width integer helpers (Rust u8 / u16 operators)                   *)
(***************************************************************************)
RECURSIVE BitAnd(_, _)
BitAnd(a, b) ==
    IF a = 0 \/ b = 0 THEN 0
    ELSE (IF a % 2 = 1 /\ b % 2 = 1 THEN 1 ELSE 0) + 2 * BitAnd(a \div 2, b \div 2)

RECURSIVE BitOr(_, _)
BitOr(a, b) ==
    IF a = 0 THEN b
    ELSE IF b = 0 THEN a
    ELSE (IF a % 2 = 1 \/ b % 2 = 1 THEN 1 ELSE 0) + 2 * BitOr(a \div 2, b \div 2)

Shr(v, n) == v \div (2 ^ n)

Shl16(v, n) == (v * (2 ^ n)) % 65536

(***************************************************************************)
(* status.rs: CmdStatus                                                    *)
(***************************************************************************)
CmdStatus_from == [x \in 0 .. 7 |->
    CASE x = 0 -> "Fail"
      [] x = 1 -> "PErr"
      [] x = 2 -> "Ok"
      [] x = 3 -> "Data"
      [] OTHER -> "Unknown"]

CmdStatus_check_swapped(c) ==
    CASE c = "Unknown" -> "Err_Unknown"
      [] c = "Fail"    -> "Err_CmdErr"
      [] c = "PErr"    -> "Err_CmdFail"
      [] OTHER         -> "Ok"

CmdStatus_check(c) ==
    CASE c = "Unknown" -> "Err_Unknown"
      [] c = "Fail"    -> "Err_CmdFail"
      [] c = "PErr"    -> "Err_CmdErr"
      [] c = "Ok"      -> "Ok"
      [] c = "Data"    -> "Ok"

(***************************************************************************)
(* status.rs: Status constructors                                          *)
(***************************************************************************)
Status_from_array_le(b) == b[2] * 256 + b[1]

Status_from_array(b) == b[1] * 256 + b[2]

Status_from_slice(b) ==
    BitOr(Shl16(IF Len(b) >= 1 THEN b[1] ELSE 0, 8),
          IF Len(b) >= 2 THEN b[2] ELSE 0)

Status_from_u8_noshift(value) == value

Status_from_u8(value) == Shl16(value, 8)

(***************************************************************************)
(* status.rs: Status accessors                                             *)
(***************************************************************************)
Status_cmd_shift8(s) == CmdStatus_from[BitAnd(Shr(s, 8), 7)]

Status_cmd(s) == CmdStatus_from[BitAnd(Shr(s, 9), 7)]

Status_is_ok(s) == Status_cmd(s) \in {"Ok", "Data"}

Status_irq(s) == BitAnd(s, 256) # 0

Status_reset_src_shift3(s) ==
    LET bits_rst == BitAnd(Shr(s, 3), 15) IN
    CASE bits_rst = 0 -> "Cleared"
      [] bits_rst = 1 -> "Analog"
      [] bits_rst = 2 -> "External"
      [] bits_rst = 3 -> "System"
      [] bits_rst = 4 -> "Watchdog"
      [] bits_rst = 5 -> "Iocd"
      [] bits_rst = 6 -> "Rtc"
      [] OTHER        -> "Unknown"

Status_reset_src(s) ==
    LET bits_rst == BitAnd(Shr(s, 4), 15) IN
    CASE bits_rst = 0 -> "Cleared"
      [] bits_rst = 1 -> "Analog"
      [] bits_rst = 2 -> "External"
      [] bits_rst = 3 -> "System"
      [] bits_rst = 4 -> "Watchdog"
      [] bits_rst = 5 -> "Iocd"
      [] bits_rst = 6 -> "Rtc"
      [] OTHER        -> "Unknown"

Status_chip_mode(s) ==
    LET bits_mode == BitAnd(s, 7) IN
    CASE bits_mode = 0 -> "Sleep"
      [] bits_mode = 1 -> "Rc"
      [] bits_mode = 2 -> "Xosc"
      [] bits_mode = 3 -> "Fs"
      [] bits_mode = 4 -> "Rx"
      [] bits_mode = 5 -> "Tx"
      [] bits_mode = 6 -> "Loc"
      [] OTHER         -> "Unknown"

Status_check(s) == CmdStatus_check(Status_cmd(s))

Status_context_bit8(s) == IF BitAnd(s, 256) = 256 THEN "Flash" ELSE "Bootloader"

Status_context(s) == IF BitAnd(s, 1) = 1 THEN "Flash" ELSE "Bootloader"

\* The four decoded fields named by the data model, plus the outcome check
Fields(s) == [cmd  |-> Status_cmd(s),
              irq  |-> Status_irq(s),
              rst  |-> Status_reset_src(s),
              mode |-> Status_chip_mode(s)]

(***************************************************************************)
(* status.rs: Intr. A u32 is held as its two 16-bit halves [hi, lo].       *)
(***************************************************************************)
U32(hi, lo) == [hi |-> hi, lo |-> lo]

And32(a, b) == U32(BitAnd(a.hi, b.hi), BitAnd(a.lo, b.lo))

Or32(a, b) == U32(BitOr(a.hi, b.hi), BitOr(a.lo, b.lo))

Zero32 == U32(0, 0)

IRQ_MASK_TX_DONE == U32(0, 4)

IRQ_MASK_RX_DONE == U32(0, 8)

IRQ_MASK_PREAMBLE_DETECTED == U32(0, 16)

IRQ_MASK_SW_HDR_VALID == U32(0, 32)

IRQ_MASK_HEADER_ERR == U32(0, 64)

IRQ_MASK_CRC_ERROR == U32(0, 128)

IRQ_MASK_CAD_DONE == U32(0, 256)

IRQ_MASK_CAD_DETECTED == U32(0, 512)

IRQ_MASK_TIMEOUT == U32(0, 1024)

IRQ_MASK_LRFHSS_HOP == U32(0, 2048)

IRQ_MASK_GNSS_DONE == U32(8, 0)

IRQ_MASK_WIFI_DONE == U32(16, 0)

IRQ_MASK_LOW_BAT == U32(32, 0)

IRQ_MASK_CMD == U32(64, 0)

IRQ_MASK_ERROR == U32(128, 0)

IRQ_MASK_LEN_ERROR == U32(256, 0)

IRQ_MASK_ADDR_ERROR == U32(512, 0)

IRQ_MASK_RX_TIMESTAMP == U32(2048, 0)

IRQ_MASK_GNSS_ABORT == U32(4096, 0)

IRQ_MASK_LORA_TXRX ==
    Or32(IRQ_MASK_PREAMBLE_DETECTED,
    Or32(IRQ_MASK_HEADER_ERR, Or32(IRQ_MASK_SW_HDR_VALID,
    Or32(IRQ_MASK_RX_DONE, Or32(IRQ_MASK_TX_DONE,
    Or32(IRQ_MASK_CAD_DETECTED, Or32(IRQ_MASK_CAD_DONE,
    Or32(IRQ_MASK_TIMEOUT, IRQ_MASK_CRC_ERROR))))))))

IRQ_MASK_RX_ERROR ==
    Or32(IRQ_MASK_HEADER_ERR, Or32(IRQ_MASK_CRC_ERROR,
         Or32(IRQ_MASK_LEN_ERROR, IRQ_MASK_ADDR_ERROR)))

\* bytes.get(k).unwrap_or(&0), k counted from 0
ByteAt(b, k) == IF Len(b) > k THEN b[k + 1] ELSE 0

Intr_from_slice_le(b) ==
    U32(BitOr(Shl16(ByteAt(b, 3), 8), ByteAt(b, 2)),
        BitOr(Shl16(ByteAt(b, 1), 8), ByteAt(b, 0)))

Intr_from_slice(b) ==
    U32(BitOr(Shl16(ByteAt(b, 0), 8), ByteAt(b, 1)),
        BitOr(Shl16(ByteAt(b, 2), 8), ByteAt(b, 3)))

Intr_new(value) == value

Intr_value(v) == v

Intr_intr_match_all(v, mask) == And32(Intr_value(v), mask) = mask

Intr_intr_match(v, mask) == And32(Intr_value(v), mask) # Zero32

Intr_none(v) == v = Zero32

Intr_rx_timestamp(v) == And32(v, IRQ_MASK_RX_TIMESTAMP) # Zero32

Intr_preamble_detected(v) == And32(v, IRQ_MASK_PREAMBLE_DETECTED) # Zero32

Intr_sw_header_valid(v) == And32(v, IRQ_MASK_SW_HDR_VALID) # Zero32

Intr_cad_detected(v) == And32(v, IRQ_MASK_CAD_DETECTED) # Zero32

Intr_header_err(v) == And32(v, IRQ_MASK_HEADER_ERR) # Zero32

Intr_low_bat(v) == And32(v, IRQ_MASK_LOW_BAT) # Zero32

Intr_lrfhss_hop(v) == And32(v, IRQ_MASK_LRFHSS_HOP) # Zero32

Intr_error(v) == And32(v, IRQ_MASK_ERROR) # Zero32

Intr_cmd(v) == And32(v, IRQ_MASK_CMD) # Zero32

Intr_rx_done(v) == And32(v, IRQ_MASK_RX_DONE) # Zero32

Intr_tx_done(v) == And32(v, IRQ_MASK_TX_DONE) # Zero32

Intr_cad_done(v) == And32(v, IRQ_MASK_CAD_DONE) # Zero32

Intr_timeout(v) == And32(v, IRQ_MASK_TIMEOUT) # Zero32

Intr_crc_error(v) == And32(v, IRQ_MASK_CRC_ERROR) # Zero32

Intr_len_error(v) == And32(v, IRQ_MASK_LEN_ERROR) # Zero32

Intr_addr_error(v) == And32(v, IRQ_MASK_ADDR_ERROR) # Zero32

Intr_rx_error(v) == And32(v, IRQ_MASK_RX_ERROR) # Zero32

\* No interrupt snapshot under decoding
NoSnap == [a |-> <<0, 0, 0, 0>>, b |-> Zero32]

\* The driver at rest, right after construction
XIdle ==
    /\ nss = "high"
    /\ spi = "idle"
    /\ chip = [busy |-> 0, stuck |-> FALSE]
    /\ call = [name |-> "none", arg |-> 0]
    /\ prog = <<>>
    /\ pc = 0
    /\ elapsed = 0
    /\ result = "none"
    /\ trace = <<>>
    /\ polls = 0
    /\ need = [busy |-> 0, stuck |-> FALSE]
    /\ rsp = <<0, 0>>
    /\ buf = "zero"
    /\ mosi = "none"

\* Keys of `decoded`: one per constructor, the slice constructor per slice length
SliceKey == [n \in 0 .. 2 |-> CASE n = 0 -> "slice0" [] n = 1 -> "slice1" [] OTHER -> "slice2"]

(***************************************************************************)
(* Status decoder specification: every pair of response bytes, decoded by  *)
(* each of the three constructors                                          *)
(***************************************************************************)
DecInit ==
    /\ bytes \in [1 .. 2 -> 0 .. 255]
    /\ decoded = <<>>
    /\ snap = NoSnap
    /\ intr = <<>>
    /\ fin = <<>>
    /\ fout = <<>>
    /\ busyPin = TRUE
    /\ XIdle

\* Status::from_array on the two bytes
DecodeArray ==
    /\ "array" \notin DOMAIN decoded
    /\ decoded' = decoded @@ ("array" :> Status_from_array(<<bytes[1], bytes[2]>>))
    /\ UNCHANGED <<bytes, snap, intr, fin, fout, xvars>>

\* Status::from_slice on the first n bytes
DecodeSlice(n) ==
    /\ DOMAIN decoded \cap {SliceKey[k] : k \in 0 .. 2} = {}
    /\ decoded' = decoded @@
            (SliceKey[n] :> Status_from_slice(SubSeq(<<bytes[1], bytes[2]>>, 1, n)))
    /\ UNCHANGED <<bytes, snap, intr, fin, fout, xvars>>

\* Status::from(u8) on the first byte (short form)
DecodeShort ==
    /\ "short" \notin DOMAIN decoded
    /\ decoded' = decoded @@ ("short" :> Status_from_u8(bytes[1]))
    /\ UNCHANGED <<bytes, snap, intr, fin, fout, xvars>>

DecNext ==
    \/ DecodeArray
    \/ \E n \in 0 .. 2 : DecodeSlice(n)
    \/ DecodeShort

SpecStatus == DecInit /\ [][DecNext]_vars

(***************************************************************************)
(* Interrupt decoder specification: snapshot a arrives as 4 response bytes *)
(* (StatusRsp::intr), snapshot b as a u32 (Intr::new), and the two are     *)
(* combined with the bitwise OR of their values                            *)
(***************************************************************************)
\* The big-endian bytes of a u32
Bytes32(w) == <<w.hi \div 256, w.hi % 256, w.lo \div 256, w.lo % 256>>

\* u32 words with exactly one bit set
OneBit == {U32(2 ^ k, 0) : k \in 0 .. 15} \cup {U32(0, 2 ^ k) : k \in 0 .. 15}

\* Snapshots decoded from bytes: no bit, every bit, at most two bits, all but one
\* bit, and the RxDone + Timeout word 0x00000408
WordsA ==
    {Zero32, U32(65535, 65535), U32(0, 1032)}
    \cup {U32(65535 - w.hi, 65535 - w.lo) : w \in OneBit}
    \cup {Or32(x, y) : x \in OneBit, y \in OneBit}

\* Snapshots and masks given as u32
WordsB ==
    {Zero32, U32(65535, 65535), IRQ_MASK_RX_ERROR, IRQ_MASK_LORA_TXRX}
    \cup OneBit \cup {U32(65535 - w.hi, 65535 - w.lo) : w \in OneBit}

IntrInit ==
    /\ snap \in {[a |-> Bytes32(w), b |-> v] : w \in WordsA, v \in WordsB}
    /\ intr = <<>>
    /\ fin = <<>>
    /\ fout = <<>>
    /\ bytes = <<0, 0>>
    /\ decoded = <<>>
    /\ busyPin = TRUE
    /\ XIdle

\* Intr::from_slice on the 4 bytes of snapshot a
IntrFromSlice ==
    /\ "a" \notin DOMAIN intr
    /\ intr' = intr @@ ("a" :> Intr_from_slice(snap.a))
    /\ UNCHANGED <<bytes, decoded, snap, fin, fout, xvars>>

\* Intr::new (From<u32>) on snapshot b
IntrNew ==
    /\ "b" \notin DOMAIN intr
    /\ intr' = intr @@ ("b" :> Intr_new(snap.b))
    /\ UNCHANGED <<bytes, decoded, snap, fin, fout, xvars>>

\* Intr::new(a.value() | b.value())
IntrOr ==
    /\ {"a", "b"} \subseteq DOMAIN intr
    /\ "or" \notin DOMAIN intr
    /\ intr' = intr @@ ("or" :> Intr_new(Or32(Intr_value(intr["a"]), Intr_value(intr["b"]))))
    /\ UNCHANGED <<bytes, decoded, snap, fin, fout, xvars>>

IntrNext ==
    \/ IntrFromSlice
    \/ IntrNew
    \/ IntrOr

SpecIntr == IntrInit /\ [][IntrNext]_vars

(***************************************************************************)
(* Pure functions called by the driver methods                             *)
(***************************************************************************)
Min(a, b) == IF a < b THEN a ELSE b

\* AlmanacSv.content is [u8; 15]
ContentLen == 15

\* The match of AlmanacSv::to_bytes for buffer index i (0-based); content is
\* held 1-based, so content[ci] of the source is sv.content[ci + 1] here
AlmanacSv_byte(sv, i) ==
    CASE i = 0 -> sv.sv_id
      [] i \in 1 .. 15 -> sv.content[i + 1]
      [] i = 16 -> Shr(sv.ca_code, 8) % 256
      [] i = 17 -> BitAnd(sv.ca_code, 255)
      [] i = 18 -> sv.modulation
      [] i = 19 -> sv.const_id
      [] OTHER -> 0

\* for (i,b) in buffer.iter_mut().take(20).enumerate(): the bytes are written
\* in index order until content[ci] is indexed past the end of content, which
\* panics and leaves the rest of the buffer as it was
AlmanacSv_to_bytes(sv, buffer) ==
    LET n == Min(Len(buffer), 20)
        bad == {i \in 0 .. n - 1 : i \in 1 .. 15 /\ i >= ContentLen}
        stop == IF bad = {} THEN n ELSE CHOOSE i \in bad : \A j \in bad : i <= j
    IN  [panic |-> bad # {},
         bytes |-> [k \in 1 .. Len(buffer) |->
                       IF k <= stop THEN AlmanacSv_byte(sv, k - 1) ELSE buffer[k]]]

\* Satellites: small and large field values, distinct content bytes
AlmanacSvs ==
    [sv_id : {1, 255},
     content : {[k \in 1 .. ContentLen |-> 100 + k], [k \in 1 .. ContentLen |-> 255]},
     ca_code : {258, 65535},
     modulation : {0, 3},
     const_id : {0, 1}]

WIFI_RES_SHORT_SIZE == 9
WIFI_RES_LONG_SIZE == 22
WIFI_RES_EXT_SIZE == 79
WIFI_RES_COUNTRY_SIZE == 10

\* ResultFromSlice::SIZE of the result type of each getter
WifiResultSize(fmt) ==
    CASE fmt = "short" -> WIFI_RES_SHORT_SIZE
      [] fmt = "long" -> WIFI_RES_LONG_SIZE
      [] fmt = "ext" -> WIFI_RES_EXT_SIZE
      [] fmt = "country" -> WIFI_RES_COUNTRY_SIZE

\* let nb_byte = nb.min(32) as usize * SIZE as usize (nb.min(12) for the
\* extended results): the number of bytes read and the length of the slice
\* given to the iterator
WifiNbByte(fmt, nb) == Min(nb, IF fmt = "ext" THEN 12 ELSE 32) * WifiResultSize(fmt)

\* WifiResultsIter::new(buffer, nb): max is computed from nb, not from the
\* length of the slice; fmt stands for the result type T of the iterator
WifiResultsIter_new(fmt, len, nb) ==
    [status |-> "Iter", fmt |-> fmt, len |-> len, index |-> 0,
     max |-> nb * WifiResultSize(fmt), yielded |-> 0]

\* Iterator::next: None at max, otherwise the result decoded from
\* buffer[index..index + SIZE]; a range past the end of the slice panics
WifiResultsIter_next(fmt, it) ==
    IF it.index >= it.max THEN [it EXCEPT !.status = "None"]
    ELSE LET next == it.index + WifiResultSize(fmt)
         IN  IF next > it.len THEN [it EXCEPT !.status = "Panic"]
             ELSE [it EXCEPT !.index = next, !.yielded = @ + 1]

\* u16 addition: an overflow panics in a build with overflow checks and wraps
\* in a build without
AddU16(a, b) ==
    IF a + b < 65536 THEN {[panic |-> FALSE, v |-> a + b]}
    ELSE {[panic |-> TRUE, v |-> a], [panic |-> FALSE, v |-> (a + b) % 65536]}

(***************************************************************************)
(* Transaction executor: steps of a driver method                          *)
(*   set_low   self.nss.set_low().map_err(|_| Lr1120Error::Pin)?           *)
(*   xfer      self.spi.transfer...(..).await.map_err(|_| Spi)?            *)
(*   set_high  self.nss.set_high().map_err(|_| Lr1120Error::Pin)?          *)
(*   wait      self.wait_ready(Duration::from_millis(t)).await?            *)
(*   clear     self.buffer.clear(n)                                        *)
(*   check     self.buffer.cmd_status().check()                            *)
(*   fail      return Err(e)                                               *)
(*   bind      the next read phase transfers a caller-provided buffer      *)
(*   panic     a slice range past the end of its buffer, or a shift by 32  *)
(*             bits or more                                                *)
(*   acc       rssi += reading as u16                                      *)
(*   div       (rssi + (nb_meas>>1)) / nb_meas                             *)
(*   sv_bytes  sv.to_bytes(&mut buffer[offset..offset_next])               *)
(*   iter      WifiResultsIter::new(&self.buffer()[..nb_byte], nb)         *)
(* ph is the bus phase of the frame ("write": request bytes, "read": probe *)
(* bytes); g is TRUE when the frame's chip-select is released by a scope   *)
(* guard on a failed transfer.                                             *)
(***************************************************************************)
Ins(i, ph, g, t, e) == [i |-> i, ph |-> ph, g |-> g, t |-> t, e |-> e]

SetLow(ph) == Ins("set_low", ph, FALSE, 0, "-")

Xfer(ph, g) == Ins("xfer", ph, g, 0, "-")

\* transfer of a region of n bytes
XferN(ph, g, n) == Ins("xfer", ph, g, n, "-")

SetHigh(ph) == Ins("set_high", ph, FALSE, 0, "-")

Wait(t) == Ins("wait", "-", FALSE, t, "-")

Clear == Ins("clear", "-", FALSE, 0, "-")

Check == Ins("check", "-", FALSE, 0, "-")

Fail(e) == Ins("fail", "-", FALSE, 0, e)

\* A panic of the method; wraps is TRUE for an arithmetic overflow, which goes
\* on with the wrapped value in a build without overflow checks
Panic(wraps) == Ins("panic", "-", wraps, 0, "-")

RECURSIVE Repeat(_, _)
Repeat(p, n) == IF n = 0 THEN <<>> ELSE p \o Repeat(p, n - 1)

\* Duration::from_millis(1) and Duration::from_millis(100), in poll periods
T1ms == 1

T100ms == 100

\* Capacity in bytes of the transaction buffer (self.buffer)
BufferCap == 1024

(***************************************************************************)
(* Executor primitives of the driver object                                *)
(***************************************************************************)
\* write the beginning of a command: chip-select stays asserted on success
cmd_wr_begin == <<SetLow("write"), Xfer("write", TRUE)>>

\* write(opcode_bytes)
cmd_wr == cmd_wr_begin \o <<SetHigh("write")>>

\* write_with_trailing_payload(opcode_bytes, payload)
cmd_data_wr == <<SetLow("write"), Xfer("write", TRUE), SetHigh("write")>>

\* read phase into the transaction buffer
rsp_rd == <<SetLow("read"), Clear, Xfer("read", TRUE), SetHigh("read")>>

\* read phase into a caller-provided response buffer, transferred in place;
\* content is what the buffer holds: "zero" or "data"
rsp_rd_to(content) ==
    <<Ins("bind", "-", FALSE, 0, content), SetLow("read"), Xfer("read", TRUE),
      SetHigh("read")>>

\* write_then_read(opcode_bytes, response_len) into a caller-provided buffer
cmd_rd(content) == cmd_wr \o <<Wait(T1ms)>> \o rsp_rd_to(content)

\* write of the first bytes of the transaction buffer
cmd_buf_wr == <<SetLow("write"), Xfer("write", TRUE), SetHigh("write")>>

\* write_checked(opcode_bytes)
write_checked == cmd_wr \o rsp_rd \o <<Check>>

(***************************************************************************)
(* Driver methods (system.rs, radio.rs, gnss.rs, wifi_scan.rs, crypto.rs,  *)
(* lora.rs, fsk.rs)                                                        *)
(***************************************************************************)
clear_irqs_checked == cmd_wr \o <<Check>>

clear_irqs == cmd_wr

set_dio_rf_switch == cmd_wr \o cmd_wr

set_rx_nowait(wait_ready) == cmd_wr

set_rx(wait_ready) == cmd_wr \o (IF wait_ready = 1 THEN <<Wait(T100ms)>> ELSE <<>>)

\* self.set_rx(0xFFFFFF, true)
set_rx_continous == set_rx(1)

wr_tx_buffer_from == cmd_data_wr

wr_tx_buffer_early_release(len) ==
    cmd_wr \o (IF len > BufferCap THEN <<Panic(FALSE)>>
               ELSE <<XferN("write", FALSE, len), SetHigh("write")>>)

\* the payload is self.buffer.data_mut()[..len]: the range is taken after
\* cmd_wr_begin has returned, and panics when len exceeds the buffer
wr_tx_buffer(len) ==
    cmd_wr_begin \o (IF len > BufferCap THEN <<Panic(FALSE)>>
                     ELSE <<XferN("write", FALSE, len), SetHigh("write")>>)

\* mask = ((1 << width) - 1) << pos and value << pos are u32 shifts by pos
wr_field(pos) == (IF pos >= 32 THEN <<Panic(TRUE)>> ELSE <<>>) \o cmd_wr

\* the request is &req[..cfg.len() + 2] of a 5-byte req
set_lora_sidedet_cfg(len) == IF len + 2 > 5 THEN <<Panic(FALSE)>> ELSE cmd_wr

\* the request is &req[..sw.len() + 2] of a 5-byte req
set_lora_sidedet_syncword(len) == IF len + 2 > 5 THEN <<Panic(FALSE)>> ELSE cmd_wr

rd_rx_buffer_nowait == cmd_wr \o rsp_rd

rd_rx_buffer == cmd_wr \o <<Wait(T1ms)>> \o rsp_rd

\* caller buffer zeroed (zeroed = 1) or holding earlier data (zeroed = 0)
rd_rx_buffer_to(zeroed) == cmd_rd(IF zeroed = 1 THEN "zero" ELSE "data")

rd_mem_retry(nb32) ==
    IF nb32 > 40 THEN <<Fail("Err_CmdErr")>>
    ELSE cmd_wr \o cmd_wr \o <<Wait(T1ms), SetLow("read"), Clear,
                               XferN("read", FALSE, 4 * nb32), SetHigh("read"), Check>>

rd_mem_words(nb32) ==
    IF nb32 > 40 THEN <<Fail("Err_CmdErr")>>
    ELSE cmd_wr \o <<Wait(T1ms), SetLow("read"), Clear, XferN("read", FALSE, nb32),
                     SetHigh("read"), Check>>

rd_mem_noclear(nb32) ==
    IF nb32 > 40 THEN <<Fail("Err_CmdErr")>>
    ELSE cmd_wr \o <<Wait(T1ms), SetLow("read"), XferN("read", FALSE, 4 * nb32),
                     SetHigh("read"), Check>>

\* the read phase transfers &mut self.buffer.0[..4*nb32 as usize] in place
rd_mem(nb32) ==
    IF nb32 > 40 THEN <<Fail("Err_CmdErr")>>
    ELSE cmd_wr \o <<Wait(T1ms), SetLow("read"), Clear, XferN("read", FALSE, 4 * nb32),
                     SetHigh("read"), Check>>

\* RssiInstRsp::new() is zero-filled
get_rssi_inst == cmd_rd("zero")

\* for _ in 0..nb_meas { rssi += self.get_rssi_inst().await? as u16; } and the
\* average
get_rssi_avg(nb_meas) ==
    Repeat(get_rssi_inst \o <<Ins("acc", "-", FALSE, 0, "-")>>, nb_meas)
        \o <<Ins("div", "-", FALSE, nb_meas, "-")>>

\* one frame per chunk of 25 satellites, each satellite encoded into 20 bytes
RECURSIVE SvChunks(_)
SvChunks(nb_sv) ==
    IF nb_sv = 0 THEN <<>>
    ELSE LET k == IF nb_sv < 25 THEN nb_sv ELSE 25
         IN  Repeat(<<Ins("sv_bytes", "-", FALSE, 20, "-")>>, k) \o cmd_buf_wr
                 \o SvChunks(nb_sv - k)

\* header frame, then the chunk frames
gnss_updt_almanac(nb_sv) == cmd_buf_wr \o SvChunks(nb_sv)

gnss_get_warm_start_sv == cmd_wr \o <<Wait(T1ms)>> \o rsp_rd

wifi_get_result_short_nowait(nb) ==
    cmd_wr \o <<SetLow("read"), Clear, XferN("read", TRUE, WifiNbByte("short", nb)),
                SetHigh("read"), Ins("iter", "-", FALSE, nb, "short")>>

\* wifi_get_result_short / _long / _ext / _country: the request, the readiness
\* wait, rsp_rd(nb_byte), then the iterator over the nb_byte bytes read
wifi_get_result(fmt, nb) ==
    cmd_wr \o <<Wait(T100ms), SetLow("read"), Clear,
                XferN("read", TRUE, WifiNbByte(fmt, nb)), SetHigh("read"),
                Ins("iter", "-", FALSE, nb, fmt)>>

wifi_get_result_short(nb) == wifi_get_result("short", nb)

\* KeyId predicates (cmd_crypto.rs)
KeyId_Nwk == 2

KeyId_JsInt == 5

KeyId_is_unicast(key) == key \in 12 .. 17

\* KeyId::is_multicast: McAppS0 ..= McNwkS3
KeyId_is_multicast(key) == key \in 18 .. 25

ce_process_join_accept_hdr1(lorawan, data_len) ==
    LET rsp_len == IF data_len > 1 THEN data_len - 1 ELSE 0
    IN  IF rsp_len # 16 /\ rsp_len # 32 THEN <<Fail("Err_InvalidParam")>>
        ELSE cmd_data_wr \o <<Wait(T100ms), SetLow("read"), Clear,
                               XferN("read", TRUE, rsp_len), SetHigh("read")>>

\* lorawan is 0 for LorawanVersion::V1p0 and 1 for V1p1; data_len is data.len();
\* rsp_len = data.len().saturating_sub(hdr_len); the response is read with
\* rsp_rd(rsp_len) and the payload returned is buffer()[1..rsp_len+1]
ce_process_join_accept(lorawan, data_len) ==
    LET hdr_len == IF lorawan = 0 THEN 1 ELSE 12
        rsp_len == IF data_len > hdr_len THEN data_len - hdr_len ELSE 0
    IN  IF rsp_len # 16 /\ rsp_len # 32 THEN <<Fail("Err_InvalidParam")>>
        ELSE cmd_data_wr \o <<Wait(T100ms), SetLow("read"), Clear,
                               XferN("read", TRUE, rsp_len), SetHigh("read")>>

ce_compute_cmac(key) ==
    IF key # KeyId_Nwk /\ key # KeyId_JsInt /\ ~KeyId_is_unicast(key)
    THEN <<Fail("Err_InvalidParam")>>
    ELSE cmd_data_wr \o rsp_rd_to("zero")

ce_verify_cmac(key) ==
    IF key # KeyId_Nwk /\ key # KeyId_JsInt /\ ~KeyId_is_unicast(key)
       /\ ~KeyId_is_multicast(key)
    THEN <<Fail("Err_InvalidParam")>>
    ELSE cmd_data_wr \o rsp_rd_to("zero")

\* len is din.len(): the response is read with rsp_rd(din.len()) and the data
\* returned is buffer()[1..din.len()+1], a slice that panics when its end is
\* past the end of the transaction buffer
ce_encrypt(len) ==
    cmd_data_wr \o <<SetLow("read"), Clear, XferN("read", TRUE, len), SetHigh("read")>>
        \o (IF len + 1 > BufferCap THEN <<Panic(FALSE)>> ELSE <<>>)

ce_encrypt_lorawan(key, len) ==
    IF ~KeyId_is_unicast(key) /\ ~KeyId_is_multicast(key)
    THEN <<Fail("Err_InvalidParam")>>
    ELSE cmd_data_wr \o <<SetLow("read"), Clear, XferN("read", TRUE, len), SetHigh("read")>>
             \o (IF len + 1 > BufferCap THEN <<Panic(FALSE)>> ELSE <<>>)

ce_decrypt(len) ==
    cmd_data_wr \o <<SetLow("read"), Clear, XferN("read", TRUE, len), SetHigh("read")>>
        \o (IF len + 1 > BufferCap THEN <<Panic(FALSE)>> ELSE <<>>)

\* KeyId::is_core: Nwk | App
KeyId_is_core(key) == key \in {2, 3}

\* KeyId::is_gp_transport: GpKe0 ..= GpKe5
KeyId_is_gp_transport(key) == key \in 6 .. 11

ce_derive_key_any_dst(src, dst) ==
    IF ~KeyId_is_core(src) /\ ~KeyId_is_gp_transport(src)
    THEN <<Fail("Err_InvalidParam")>>
    ELSE cmd_rd("zero")

\* CryptoDeriveKeyRsp::new() is zero-filled
ce_derive_key(src, dst) ==
    IF ~KeyId_is_core(src) /\ ~KeyId_is_gp_transport(src)
    THEN <<Fail("Err_InvalidParam")>>
    ELSE IF KeyId_is_core(dst) THEN <<Fail("Err_InvalidParam")>>
    ELSE cmd_rd("zero")

(***************************************************************************)
(* The methods that build one request and hand it to one primitive, per    *)
(* source file: "cmd_wr" is self.cmd_wr(&req).await, "cmd_rd" is            *)
(* self.cmd_rd(&req, rsp.as_mut()).await? on a response created by new()   *)
(* (zero-filled), "cmd_data_wr" is self.cmd_data_wr(&req, data).await      *)
(***************************************************************************)
system_rs ==
    [n \in {"calibrate", "calib_image", "set_chip_mode", "set_regulator_mode",
            "set_dio_irq", "set_lf_clk", "set_tcxo", "clear_rx_buffer", "wr_reg",
            "wr_reg_mask"} |-> "cmd_wr"]
    @@ [n \in {"get_status", "get_errors", "get_version", "get_chip_eui",
               "get_join_eui", "get_temperature", "get_vbat", "get_random_number",
               "rd_reg"} |-> "cmd_rd"]

radio_rs ==
    [n \in {"set_rf", "set_packet_type", "set_tx_params", "set_pa", "set_fallback",
            "set_tx", "set_tx_cw", "set_rx_duty_cycle", "clear_rx_stats",
            "set_stop_timeout"} |-> "cmd_wr"]
    @@ [n \in {"get_rx_buffer_status"} |-> "cmd_rd"]

crypto_rs ==
    [n \in {"ce_set_key", "ce_store_to_flash", "ce_restore_from_flash",
            "ce_set_param", "ce_get_param", "ce_fw_image_ok"} |-> "cmd_rd"]
    @@ [n \in {"ce_check_fw_image"} |-> "cmd_data_wr"]

gnss_rs ==
    [n \in {"gnss_set_constellation", "gnss_set_mode", "gnss_autonomous",
            "gnss_assisted", "gnss_scan", "gnss_set_assist_pos",
            "gnss_set_almanac_update", "gnss_set_delay_reset_assist",
            "gnss_reset_assist", "gnss_fetch_time", "gnss_reset_time",
            "gnss_set_time", "gnss_set_gps_sat_bitmask",
            "gnss_set_beidou_sat_bitmask", "gnss_updt_almanac_from_sat",
            "gnss_set_almanac_updt_period"} |-> "cmd_wr"]
    @@ [n \in {"gnss_get_constellation", "gnss_supported_constellation",
               "gnss_get_assist_pos", "gnss_get_context_status", "gnss_get_version",
               "gnss_get_almanac_update", "gnss_get_result_size", "gnss_get_nb_sv",
               "gnss_get_nb_sv_filt", "gnss_get_delay_reset_assist",
               "gnss_get_consumption", "gnss_get_scan_type", "gnss_get_time",
               "gnss_get_doppler", "gnss_get_wn_rollover",
               "gnss_get_warm_start_status", "gnss_get_almanac_updt_period",
               "gnss_get_almanac_status"} |-> "cmd_rd"]
    @@ [n \in {"gnss_push_solver_msg", "gnss_push_dm_msg"} |-> "cmd_data_wr"]

wifi_scan_rs ==
    [n \in {"wifi_scan", "wifi_scan_time_limit", "wifi_scan_country_code",
            "wifi_scan_country_code_time_limit", "wifi_reset_timings",
            "wifi_set_timestamp_thr"} |-> "cmd_wr"]
    @@ [n \in {"wifi_get_nb_res", "wifi_get_nb_country_code", "wifi_get_timings",
               "wifi_get_fw_version"} |-> "cmd_rd"]

lora_rs ==
    [n \in {"set_lora_modulation", "set_lora_packet", "set_lora_syncword",
            "set_lora_syncword_ext", "set_lora_synch_timeout", "set_lora_cad_params",
            "set_lora_cad", "comp_sx127x_sf6", "set_ranging_dev_addr",
            "set_ranging_req_addr", "set_ranging_txrx_delay",
            "set_ranging_params"} |-> "cmd_wr"]
    @@ [n \in {"get_lora_rx_header_info", "get_lora_packet_status",
               "get_ranging_result", "get_ranging_rssi"} |-> "cmd_rd"]

fsk_rs ==
    [n \in {"set_fsk_modulation", "set_fsk_packet", "set_fsk_syncword"} |-> "cmd_wr"]
    @@ [n \in {"get_fsk_packet_status"} |-> "cmd_rd"]

\* Largest number of measurements asked of get_rssi_avg
MaxMeas == 2

\* The calls a behaviour may issue: method name and argument
Calls ==
    {[name |-> n, arg |-> 0] :
        n \in {"write_checked", "clear_irqs", "set_dio_rf_switch", "wr_tx_buffer_from",
               "rd_rx_buffer", "gnss_get_warm_start_sv", "set_rx_continous",
               "get_rssi_inst"}
              \cup DOMAIN system_rs \cup DOMAIN radio_rs \cup DOMAIN crypto_rs
              \cup DOMAIN gnss_rs \cup DOMAIN wifi_scan_rs \cup DOMAIN lora_rs
              \cup DOMAIN fsk_rs}
    \cup {[name |-> "set_rx", arg |-> a] : a \in {0, 1}}
    \cup {[name |-> "wr_tx_buffer", arg |-> a] : a \in {0, BufferCap, BufferCap + 1}}
    \cup {[name |-> "wr_field", arg |-> a] : a \in {0, 31, 32}}
    \cup {[name |-> n, arg |-> a] :
              n \in {"set_lora_sidedet_cfg", "set_lora_sidedet_syncword"},
              a \in {0, 3, 4}}
    \cup {[name |-> "rd_mem", arg |-> a] : a \in {0, 1, 40, 41}}
    \cup {[name |-> "ce_process_join_accept", arg |-> 100 * lorawan + data_len] :
              lorawan \in {0, 1}, data_len \in {0, 1, 11, 16, 17, 28, 33, 44}}
    \cup {[name |-> "ce_compute_cmac", arg |-> a] : a \in {2, 3, 5, 12, 18}}
    \cup {[name |-> "ce_verify_cmac", arg |-> a] : a \in {2, 3, 5, 12, 18, 26}}
    \cup {[name |-> n, arg |-> a] :
              n \in {"ce_encrypt", "ce_decrypt"}, a \in {0, BufferCap - 1, BufferCap}}
    \cup {[name |-> "ce_encrypt_lorawan", arg |-> 32 * len + key] :
              key \in {2, 12, 25, 26}, len \in {0, BufferCap - 1, BufferCap}}
    \cup {[name |-> "rd_rx_buffer_to", arg |-> a] : a \in {0, 1}}
    \cup {[name |-> "get_rssi_avg", arg |-> a] : a \in 0 .. MaxMeas}
    \cup {[name |-> "gnss_updt_almanac", arg |-> a] : a \in {0, 1, 26}}
    \cup {[name |-> "ce_derive_key", arg |-> 32 * src + dst] :
              src \in {2, 3, 5, 6, 11, 12}, dst \in {2, 3, 12}}
    \cup {[name |-> "wifi_get_result_short", arg |-> a] : a \in {0, 1, 32, 33}}
    \cup {[name |-> n, arg |-> a] :
              n \in {"wifi_get_result_long", "wifi_get_result_country"}, a \in {0, 2}}
    \cup {[name |-> "wifi_get_result_ext", arg |-> a] : a \in {0, 1, 12, 13, 255}}

\* The steps of each call
Program ==
    [c \in Calls |->
        CASE c.name = "write_checked"           -> write_checked
          [] c.name = "clear_irqs"              -> clear_irqs
          [] c.name = "set_dio_rf_switch"       -> set_dio_rf_switch
          [] c.name = "set_rx"                  -> set_rx(c.arg)
          [] c.name = "set_rx_continous"        -> set_rx_continous
          [] c.name = "wr_tx_buffer_from"       -> wr_tx_buffer_from
          [] c.name = "wr_tx_buffer"            -> wr_tx_buffer(c.arg)
          [] c.name = "wr_field"                -> wr_field(c.arg)
          [] c.name = "set_lora_sidedet_cfg"    -> set_lora_sidedet_cfg(c.arg)
          [] c.name = "set_lora_sidedet_syncword" -> set_lora_sidedet_syncword(c.arg)
          [] c.name = "rd_rx_buffer"            -> rd_rx_buffer
          [] c.name = "rd_mem"                  -> rd_mem(c.arg)
          [] c.name = "gnss_get_warm_start_sv"  -> gnss_get_warm_start_sv
          [] c.name = "wifi_get_result_short"   -> wifi_get_result_short(c.arg)
          [] c.name = "wifi_get_result_long"    -> wifi_get_result("long", c.arg)
          [] c.name = "wifi_get_result_ext"     -> wifi_get_result("ext", c.arg)
          [] c.name = "wifi_get_result_country" -> wifi_get_result("country", c.arg)
          [] c.name = "ce_process_join_accept"  -> ce_process_join_accept(c.arg \div 100, c.arg % 100)
          [] c.name = "ce_compute_cmac"         -> ce_compute_cmac(c.arg)
          [] c.name = "ce_verify_cmac"          -> ce_verify_cmac(c.arg)
          [] c.name = "ce_encrypt_lorawan"      -> ce_encrypt_lorawan(c.arg % 32, c.arg \div 32)
          [] c.name = "ce_encrypt"              -> ce_encrypt(c.arg)
          [] c.name = "ce_decrypt"              -> ce_decrypt(c.arg)
          [] c.name = "rd_rx_buffer_to"         -> rd_rx_buffer_to(c.arg)
          [] c.name = "get_rssi_inst"           -> get_rssi_inst
          [] c.name = "get_rssi_avg"            -> get_rssi_avg(c.arg)
          [] c.name = "gnss_updt_almanac"       -> gnss_updt_almanac(c.arg)
          [] c.name = "ce_derive_key"           -> ce_derive_key(c.arg \div 32, c.arg % 32)
          [] OTHER ->
                LET file == CASE c.name \in DOMAIN system_rs    -> system_rs
                              [] c.name \in DOMAIN radio_rs     -> radio_rs
                              [] c.name \in DOMAIN crypto_rs    -> crypto_rs
                              [] c.name \in DOMAIN gnss_rs      -> gnss_rs
                              [] c.name \in DOMAIN wifi_scan_rs -> wifi_scan_rs
                              [] c.name \in DOMAIN lora_rs      -> lora_rs
                              [] c.name \in DOMAIN fsk_rs       -> fsk_rs
                    shape == file[c.name]
                IN  CASE shape = "cmd_wr"      -> cmd_wr
                      [] shape = "cmd_rd"      -> cmd_rd("zero")
                      [] shape = "cmd_data_wr" -> cmd_data_wr]

\* Longest busy period, in polls, of a chip that does become ready
MaxBusy == 3

\* Busy periods the chip may start when a request frame ends
BusyChoices ==
    {[busy |-> n, stuck |-> FALSE] : n \in 0 .. MaxBusy}
    \cup {[busy |-> 1, stuck |-> TRUE]}

\* Status headers the chip may shift back: Fail, PErr, Ok, Ok with interrupt
\* pending, Data, and an undefined outcome
RspHeaders == {<<0, 0>>, <<2, 0>>, <<4, 0>>, <<5, 35>>, <<6, 0>>, <<8, 0>>}

\* buffer.cmd_status(): the status header held by the transaction buffer
cmd_status == Status_from_slice(rsp)

ChipReady == chip.busy = 0 /\ ~chip.stuck

Running == pc > 0 /\ pc <= Len(prog)

Cur == prog[pc]

SpiError_as_pin == "Err_Pin"

\* .map_err(|_| Lr1120Error::Spi) and .map_err(|_| Lr1120Error::Pin)
SpiError == "Err_Spi"

PinError == "Err_Pin"

Return_swallowed(r) ==
    /\ result' = "Ok"
    /\ pc' = 0

\* The method returns r
Return(r) ==
    /\ result' = r
    /\ pc' = 0

(***************************************************************************)
(* Executor actions                                                        *)
(***************************************************************************)
XInit ==
    /\ bytes = <<0, 0>>
    /\ decoded = <<>>
    /\ snap = NoSnap
    /\ intr = <<>>
    /\ fin = <<>>
    /\ fout = <<>>
    /\ busyPin \in BOOLEAN
    /\ XIdle

\* A driver method is called on the idle handle; the caller has waited for
\* readiness of the previous transaction, and has dropped the iterator an
\* earlier call returned.  get_rssi_avg starts with let mut rssi = 0
\* (readings logs the measurements added so far).
Call(c) ==
    /\ pc = 0
    /\ spi = "idle"
    /\ call' = c
    /\ prog' = Program[c]
    /\ pc' = 1
    /\ result' = "none"
    /\ trace' = <<>>
    /\ polls' = 0
    /\ elapsed' = 0
    /\ chip' = [busy |-> 0, stuck |-> FALSE]
    /\ need' = [busy |-> 0, stuck |-> FALSE]
    /\ fout' = IF c.name = "get_rssi_avg"
               THEN [status |-> "Loop", rssi |-> 0, readings |-> <<>>, avg |-> 0]
               ELSE <<>>
    /\ rsp' = <<0, 0>>
    /\ mosi' = "none"
    /\ UNCHANGED <<dvars, busyPin, nss, spi, buf>>

\* return Err(e) before any bus activity
ReturnErr ==
    /\ Running /\ Cur.i = "fail"
    /\ Return(Cur.e)
    /\ UNCHANGED <<dvars, fout, busyPin, nss, spi, chip, call, prog, elapsed, trace,
                   polls, need, rsp, buf, mosi>>

\* The method panics where it stands: nothing is released.  An overflowing
\* shift panics in a build with overflow checks and goes on in a build without.
Unwind ==
    /\ Running /\ Cur.i = "panic"
    /\ \/ Return("Panic")
       \/ Cur.g /\ pc' = pc + 1 /\ UNCHANGED result
    /\ UNCHANGED <<dvars, fout, busyPin, nss, spi, chip, call, prog, elapsed, trace,
                   polls, need, rsp, buf, mosi>>

\* nss.set_low(): assert chip-select, or fail with the pin error
NssSetLow ==
    /\ Running /\ Cur.i = "set_low"
    /\ \/ /\ nss' = "low"
          /\ trace' = Append(trace, IF Cur.ph = "read" THEN "assert_r" ELSE "assert_w")
          /\ pc' = pc + 1
          /\ UNCHANGED result
       \/ /\ Return(PinError)
          /\ trace' = Append(trace, "pin_fail")
          /\ UNCHANGED nss
    /\ UNCHANGED <<dvars, fout, busyPin, spi, chip, call, prog, elapsed, polls, need,
                   rsp, buf, mosi>>

\* buffer.clear(n): zero-fill the region about to be transferred
BufferClear ==
    /\ Running /\ Cur.i = "clear"
    /\ buf' = "zero"
    /\ pc' = pc + 1
    /\ UNCHANGED <<dvars, fout, busyPin, nss, spi, chip, call, prog, elapsed, result,
                   trace, polls, need, rsp, mosi>>

\* the read phase that follows transfers the caller's buffer in place
BindBuffer ==
    /\ Running /\ Cur.i = "bind"
    /\ buf' = Cur.e
    /\ pc' = pc + 1
    /\ UNCHANGED <<dvars, fout, busyPin, nss, spi, chip, call, prog, elapsed, result,
                   trace, polls, need, rsp, mosi>>

\* rssi += self.get_rssi_inst().await? as u16: the reading is rsp.rssi(), the
\* second byte of the response just read
Accumulate ==
    /\ Running /\ Cur.i = "acc"
    /\ \E s \in AddU16(fout.rssi, rsp[2]) :
        IF s.panic THEN Return("Panic") /\ UNCHANGED fout
        ELSE /\ fout' = [fout EXCEPT !.rssi = s.v, !.readings = Append(@, rsp[2])]
             /\ pc' = pc + 1
             /\ UNCHANGED result
    /\ UNCHANGED <<dvars, busyPin, nss, spi, chip, call, prog, elapsed, trace, polls,
                   need, rsp, buf, mosi>>

\* let avg = (rssi + (nb_meas>>1)) / nb_meas; Ok(avg as u8): dividing by
\* nb_meas = 0 panics
Average ==
    /\ Running /\ Cur.i = "div"
    /\ \E s \in AddU16(fout.rssi, Shr(Cur.t, 1)) :
        IF s.panic \/ Cur.t = 0 THEN Return("Panic") /\ UNCHANGED fout
        ELSE /\ fout' = [fout EXCEPT !.status = "Ok", !.avg = (s.v \div Cur.t) % 256]
             /\ pc' = pc + 1
             /\ UNCHANGED result
    /\ UNCHANGED <<dvars, busyPin, nss, spi, chip, call, prog, elapsed, trace, polls,
                   need, rsp, buf, mosi>>

\* sv.to_bytes(&mut buffer[offset..offset_next]): an out-of-bounds index panics
AlmanacSvToBytes ==
    /\ Running /\ Cur.i = "sv_bytes"
    /\ IF \E sv \in AlmanacSvs : AlmanacSv_to_bytes(sv, [k \in 1 .. Cur.t |-> 0]).panic
       THEN Return("Panic")
       ELSE pc' = pc + 1 /\ UNCHANGED result
    /\ UNCHANGED <<dvars, fout, busyPin, nss, spi, chip, call, prog, elapsed, trace,
                   polls, need, rsp, buf, mosi>>

\* spi.transfer: the transfer starts
SpiTransferStart ==
    /\ Running /\ Cur.i = "xfer" /\ spi = "idle"
    /\ spi' = "active"
    /\ mosi' = IF Cur.ph = "read" THEN buf ELSE mosi
    /\ UNCHANGED <<dvars, fout, busyPin, nss, chip, call, prog, pc, elapsed, result,
                   trace, polls, need, rsp, buf>>

\* spi.transfer: the transfer completes, or fails with the transport error
SpiTransferEnd ==
    /\ Running /\ Cur.i = "xfer" /\ spi = "active"
    /\ spi' = "idle"
    /\ \/ /\ trace' = Append(trace, IF Cur.ph = "read" THEN "xfer_r" ELSE "xfer_w")
          /\ rsp' \in RspHeaders
          /\ buf' = "data"
          /\ pc' = pc + 1
          /\ UNCHANGED <<result, nss>>
       \/ /\ Return(SpiError)
          /\ IF Cur.g
             THEN nss' = "high" /\ trace' = trace \o <<"xfer_fail", "release">>
             ELSE nss' = nss /\ trace' = Append(trace, "xfer_fail")
          /\ UNCHANGED <<rsp, buf>>
    /\ UNCHANGED <<dvars, fout, busyPin, chip, call, prog, elapsed, polls, need, mosi>>

\* nss.set_high(): release chip-select, or fail with the pin error; the chip
\* starts executing a request when its frame ends
NssSetHigh ==
    /\ Running /\ Cur.i = "set_high"
    /\ \/ /\ nss' = "high"
          /\ trace' = Append(trace, "release")
          /\ pc' = pc + 1
          /\ IF Cur.ph = "write"
             THEN chip' \in BusyChoices /\ need' = chip' /\ polls' = 0
             ELSE UNCHANGED <<chip, need, polls>>
          /\ UNCHANGED result
       \/ /\ Return(PinError)
          /\ trace' = Append(trace, "pin_fail")
          /\ UNCHANGED <<nss, chip, need, polls>>
    /\ UNCHANGED <<dvars, fout, busyPin, spi, call, prog, elapsed, rsp, buf, mosi>>

\* wait_ready(timeout) with a busy pin: one sample of the pin; ready ends the
\* wait, busy past the timeout gives the timeout error, otherwise yield and
\* sample again one poll period later
WaitReadyPoll ==
    /\ Running /\ Cur.i = "wait" /\ busyPin
    /\ polls' = polls + 1
    /\ IF ChipReady
       THEN /\ trace' = Append(trace, "ready")
            /\ pc' = pc + 1
            /\ elapsed' = 0
            /\ UNCHANGED <<result, chip>>
       ELSE IF elapsed >= Cur.t
       THEN /\ Return("Err_BusyTimeout")
            /\ trace' = Append(trace, "timeout")
            /\ elapsed' = 0
            /\ UNCHANGED chip
       ELSE /\ elapsed' = elapsed + 1
            /\ chip' = IF chip.stuck THEN chip ELSE [chip EXCEPT !.busy = @ - 1]
            /\ UNCHANGED <<result, trace, pc>>
    /\ UNCHANGED <<dvars, fout, busyPin, nss, spi, call, prog, need, rsp, buf, mosi>>

WaitReadyDelay_timeout ==
    /\ Running /\ Cur.i = "wait" /\ ~busyPin
    /\ IF ChipReady
       THEN trace' = Append(trace, "ready") /\ pc' = pc + 1 /\ UNCHANGED result
       ELSE trace' = Append(trace, "timeout") /\ Return("Err_BusyTimeout")
    /\ UNCHANGED <<dvars, fout, busyPin, nss, spi, chip, call, prog, elapsed, polls,
                   need, rsp, buf, mosi>>

\* wait_ready(timeout) without a busy pin: a fixed short delay, then success
WaitReadyDelay ==
    /\ Running /\ Cur.i = "wait" /\ ~busyPin
    /\ trace' = Append(trace, "ready")
    /\ pc' = pc + 1
    /\ chip' = IF chip.stuck \/ chip.busy = 0 THEN chip ELSE [chip EXCEPT !.busy = @ - 1]
    /\ UNCHANGED <<dvars, fout, busyPin, nss, spi, call, prog, elapsed, result, polls,
                   need, rsp, buf, mosi>>

\* buffer.cmd_status().check(): the method's result is the outcome check
StatusCheck ==
    /\ Running /\ Cur.i = "check"
    /\ trace' = Append(trace, "check")
    /\ IF Status_check(cmd_status) = "Ok"
       THEN pc' = pc + 1 /\ UNCHANGED result
       ELSE Return(Status_check(cmd_status))
    /\ UNCHANGED <<dvars, fout, busyPin, nss, spi, chip, call, prog, elapsed, polls,
                   need, rsp, buf, mosi>>

\* WifiResultsIter::new(&self.buffer()[..nb_byte], nb)
WifiResultsIterNew ==
    /\ Running /\ Cur.i = "iter"
    /\ fout' = WifiResultsIter_new(Cur.e, WifiNbByte(Cur.e, Cur.t), Cur.t)
    /\ pc' = pc + 1
    /\ UNCHANGED <<dvars, busyPin, nss, spi, chip, call, prog, elapsed, result, trace,
                   polls, need, rsp, buf, mosi>>

\* every step succeeded: the method returns Ok
ReturnOk ==
    /\ pc > Len(prog)
    /\ Return("Ok")
    /\ UNCHANGED <<dvars, fout, busyPin, nss, spi, chip, call, prog, elapsed, trace,
                   polls, need, rsp, buf, mosi>>

\* The caller pulls the next result of the iterator a Wi-Fi getter returned
WifiIterNext ==
    /\ pc = 0 /\ result = "Ok"
    /\ fout # <<>>
    /\ fout.status = "Iter"
    /\ fout' = WifiResultsIter_next(fout.fmt, fout)
    /\ UNCHANGED <<dvars, xvars>>

Next ==
    \/ \E c \in Calls : Call(c)
    \/ ReturnErr
    \/ Unwind
    \/ NssSetLow
    \/ BufferClear
    \/ BindBuffer
    \/ Accumulate
    \/ Average
    \/ AlmanacSvToBytes
    \/ SpiTransferStart
    \/ SpiTransferEnd
    \/ NssSetHigh
    \/ WaitReadyPoll
    \/ WaitReadyDelay
    \/ StatusCheck
    \/ WifiResultsIterNew
    \/ ReturnOk
    \/ WifiIterNext

Spec == XInit /\ [][Next]_vars

\* The readiness poll loop is rescheduled after every yield
SpecFair == XInit /\ [][Next]_vars /\ WF_vars(WaitReadyPoll)

(***************************************************************************)
(* Streamed read (read_streaming): a result longer than the transaction    *)
(* buffer is fetched by probe reads of at most chunk_budget bytes, each an *)
(* independent write_then_read, with an index advanced between the reads.  *)
(* The chip holds value k at offset k, so fout.data is the sequence of the *)
(* offsets retrieved so far.  fout.chunks logs the chunks issued, up to    *)
(* MaxTotal + 1 of them.                                                   *)
(***************************************************************************)
MaxTotal == 6
MaxBudget == 3

ChunkLen_whole(total, got, budget) == budget

\* Size of the next probe read: at most chunk_budget, and no more than what is
\* still missing
ChunkLen(total, got, budget) == Min(budget, total - got)

StreamInit ==
    /\ fin \in [total : 0 .. MaxTotal, budget : 0 .. MaxBudget]
    /\ fout = [status |-> "Running", chunk |-> FALSE, index |-> 0, data |-> <<>>,
               chunks |-> <<>>]
    /\ bytes = <<0, 0>>
    /\ decoded = <<>>
    /\ snap = NoSnap
    /\ intr = <<>>
    /\ busyPin = TRUE
    /\ XIdle

\* The chunk log with one more chunk
Logged(log, index, n, ok) ==
    IF Len(log) < MaxTotal + 1 THEN Append(log, [index |-> index, len |-> n, ok |-> ok])
    ELSE log

\* Bytes are still missing: the next write_then_read chunk is issued
StreamChunkStart ==
    /\ fout.status = "Running" /\ ~fout.chunk
    /\ Len(fout.data) < fin.total
    /\ fout' = [fout EXCEPT !.chunk = TRUE]
    /\ UNCHANGED <<bytes, decoded, snap, intr, fin, xvars>>

\* The chunk succeeds: its bytes are appended and the index advances
StreamChunkOk ==
    /\ fout.status = "Running" /\ fout.chunk
    /\ LET n == ChunkLen(fin.total, Len(fout.data), fin.budget)
       IN fout' = [fout EXCEPT
               !.chunk = FALSE,
               !.data = @ \o [k \in 1 .. n |-> fout.index + k - 1],
               !.index = @ + n,
               !.chunks = Logged(@, fout.index, n, TRUE)]
    /\ UNCHANGED <<bytes, decoded, snap, intr, fin, xvars>>

\* The chunk fails: the read is aborted with what was read before
StreamChunkFail ==
    /\ fout.status = "Running" /\ fout.chunk
    /\ LET n == ChunkLen(fin.total, Len(fout.data), fin.budget)
       IN fout' = [fout EXCEPT
               !.chunk = FALSE,
               !.status = "Err",
               !.chunks = Logged(@, fout.index, n, FALSE)]
    /\ UNCHANGED <<bytes, decoded, snap, intr, fin, xvars>>

\* total_len bytes have been retrieved
StreamReturn ==
    /\ fout.status = "Running" /\ ~fout.chunk
    /\ Len(fout.data) >= fin.total
    /\ fout' = [fout EXCEPT !.status = "Ok"]
    /\ UNCHANGED <<bytes, decoded, snap, intr, fin, xvars>>

StreamNext ==
    \/ StreamChunkStart
    \/ StreamChunkOk
    \/ StreamChunkFail
    \/ StreamReturn

\* The loop runs inside one method call: once started, the next chunk or the
\* return is always taken
SpecStream == StreamInit /\ [][StreamNext]_vars /\ WF_vars(StreamNext)

(***************************************************************************)
(* AlmanacSv::to_bytes: one satellite copied in a caller buffer            *)
(***************************************************************************)
MaxBufLen == 21

AlmanacInit ==
    /\ fin \in [sv : AlmanacSvs, buffer : {[k \in 1 .. n |-> 170] : n \in 0 .. MaxBufLen}]
    /\ fout = <<>>
    /\ bytes = <<0, 0>>
    /\ decoded = <<>>
    /\ snap = NoSnap
    /\ intr = <<>>
    /\ busyPin = TRUE
    /\ XIdle

\* sv.to_bytes(buffer)
AlmanacToBytes ==
    /\ fout = <<>>
    /\ fout' = AlmanacSv_to_bytes(fin.sv, fin.buffer)
    /\ UNCHANGED <<bytes, decoded, snap, intr, fin, xvars>>

SpecAlmanac == AlmanacInit /\ [][AlmanacToBytes]_vars

(***************************************************************************)
(* write_reg_mem32_cmd: the request of wr_reg(addr, value)                 *)
(***************************************************************************)
\* let mut cmd = [0u8; 9]; cmd[0] = 0x01; cmd[1] = 0x05; then cmd[2..=5] |= the
\* bytes of addr and cmd[5..=8] |= the bytes of data, most significant first:
\* cmd[5] receives both the last byte of addr and the first byte of data
write_reg_mem32_cmd(addr, data) ==
    LET a == Bytes32(addr)
        d == Bytes32(data)
    IN  <<1, 5, a[1], a[2], a[3], BitOr(a[4], d[1]), d[2], d[3], d[4]>>

\* Addresses and values: 0, 1, 0x01000000, 0x00F30000, 0x12345678, 0xFFFFFFFF
RegWords ==
    {Zero32, U32(0, 1), U32(256, 0), U32(243, 0), U32(4660, 22136), U32(65535, 65535)}

WrRegInit ==
    /\ fin \in [a : [addr : RegWords, value : RegWords],
                b : [addr : RegWords, value : RegWords]]
    /\ fout = <<>>
    /\ bytes = <<0, 0>>
    /\ decoded = <<>>
    /\ snap = NoSnap
    /\ intr = <<>>
    /\ busyPin = TRUE
    /\ XIdle

\* write_reg_mem32_cmd(addr, value) is applied to one of the two argument pairs;
\* the request built is what wr_reg hands to cmd_wr
WrRegBuild ==
    /\ \E k \in {"a", "b"} :
        /\ k \notin DOMAIN fout
        /\ fout' = fout @@ (k :> write_reg_mem32_cmd(fin[k].addr, fin[k].value))
    /\ UNCHANGED <<bytes, decoded, snap, intr, fin, xvars>>

SpecWrReg == WrRegInit /\ [][WrRegBuild]_vars

(***************************************************************************)
(* Claims on the transaction executor (checked under Spec)                 *)
(***************************************************************************)
HasEvent(e) == \E i \in 1 .. Len(trace) : trace[i] = e

Returned == pc = 0 /\ result # "none"

\* Methods of the write_then_read shape: a plain write of the request, then a
\* separate read of the response
WifiGetters ==
    {"wifi_get_result_short", "wifi_get_result_long", "wifi_get_result_ext",
     "wifi_get_result_country"}

WriteThenReadOps ==
    {"rd_rx_buffer", "rd_mem", "gnss_get_warm_start_sv"} \cup WifiGetters

\* Methods that compose a write with a separate response read
RequestResponseOps ==
    WriteThenReadOps \cup {"ce_process_join_accept", "ce_compute_cmac", "ce_encrypt",
                            "ce_decrypt", "ce_verify_cmac", "ce_encrypt_lorawan"}

\* The methods that hand one request to one primitive, by primitive
OpsOfShape(shape) ==
    LET all == system_rs @@ radio_rs @@ crypto_rs @@ gnss_rs @@ wifi_scan_rs
               @@ lora_rs @@ fsk_rs
    IN  {n \in DOMAIN all : all[n] = shape}

\* The timeout the running method hands to wait_ready
WaitBudget ==
    LET w == SelectSeq(prog, LAMBDA x : x.i = "wait")
    IN  IF Len(w) = 0 THEN 0 ELSE w[1].t

\* C1: after any driver method has returned, with success or with a transport,
\* timeout or command-status error, chip-select is released (a pin error of the
\* release call itself is left aside: no code can release the line then).
C1_SelectReleased ==
    (Returned /\ result # "Err_Pin") => nss = "high"

\* C2: a write_then_read method asserts chip-select for its read phase only after
\* wait_ready has reported ready; with a busy pin that reads busy for need.busy
\* polls and then ready, at least need.busy samples were taken after the write
\* phase.
C2_ReadAfterReady ==
    call.name \in WriteThenReadOps =>
        \A i \in 1 .. Len(trace) :
            trace[i] = "assert_r" =>
                /\ \E j \in 1 .. i - 1 : trace[j] = "ready"
                /\ busyPin => (~need.stuck /\ polls >= need.busy)

C2_Witness ==
    /\ busyPin
    /\ call.name = "wifi_get_result_short"
    /\ need.busy = 3 /\ ~need.stuck
    /\ polls = 4
    /\ HasEvent("xfer_r")

\* C3: when the busy pin stays busy longer than the timeout handed to wait_ready
\* (or never becomes ready), a write_then_read method returns the timeout error
\* and never asserts chip-select for the read phase.
C3_TimeoutNoRead ==
    (busyPin /\ call.name \in WriteThenReadOps /\ (need.stuck \/ need.busy > WaitBudget)) =>
        /\ ~HasEvent("assert_r")
        /\ ~HasEvent("xfer_r")
        /\ Returned => result \in {"Err_BusyTimeout"}

C3_Witness ==
    /\ busyPin
    /\ call.name = "wifi_get_result_short"
    /\ need.stuck
    /\ Returned /\ result = "Err_BusyTimeout"
    /\ polls = 101

\* C4: in every method that composes a write with a separate response read, the
\* read frame is reached only through the stages write frame asserted, request
\* transferred, released, readiness reported: no path skips the readiness wait.
C4_StageOrder ==
    call.name \in RequestResponseOps =>
        \A i \in 1 .. Len(trace) :
            trace[i] = "assert_r" =>
                /\ i = 5
                /\ SubSeq(trace, 1, 4) = <<"assert_w", "xfer_w", "release", "ready">>

\* C5: a bus transfer is in progress only while chip-select is asserted, and
\* chip-select is released only right after a bus transfer of its frame has ended.
C5_TransferInsideSelect ==
    /\ spi = "active" => nss = "low"
    /\ \A i \in 1 .. Len(trace) :
            trace[i] = "release" =>
                (i > 1 /\ trace[i - 1] \in {"xfer_w", "xfer_r", "xfer_fail"})

C5_Witness ==
    /\ call.name = "wr_tx_buffer"
    /\ spi = "active" /\ nss = "low"
    /\ trace = <<"assert_w", "xfer_w">>

\* C6: write_checked returns the invalid-parameter error when the status read back
\* is ParamError and the fatal-command error when it is Fail, and the status read
\* frame is the last bus activity of the call.
C6_WriteChecked ==
    (call.name = "write_checked" /\ Returned /\ HasEvent("check")) =>
        /\ (rsp[1] \div 2) % 8 = 1 => result = "Err_CmdErr"
        /\ (rsp[1] \div 2) % 8 = 0 => result = "Err_CmdFail"
        /\ trace = <<"assert_w", "xfer_w", "release",
                     "assert_r", "xfer_r", "release", "check">>

C6_Witness ==
    /\ call.name = "write_checked"
    /\ Returned /\ result = "Err_CmdErr"
    /\ rsp = <<2, 0>>
    /\ HasEvent("check")

Count(e) == Cardinality({i \in 1 .. Len(trace) : trace[i] = e})

LastEvent == IF Len(trace) = 0 THEN "none" ELSE trace[Len(trace)]

FailEvents == {"xfer_fail", "pin_fail", "timeout"}

\* The error each failure event stands for
ErrorOf(e) ==
    CASE e = "xfer_fail" -> "Err_Spi"
      [] e = "pin_fail"  -> "Err_Pin"
      [] e = "timeout"   -> "Err_BusyTimeout"

\* Transactions a call issues when nothing fails: request frames, response frames
WriteFrames(c) ==
    CASE c.name = "set_dio_rf_switch" -> 2
      [] c.name = "gnss_updt_almanac" -> 1 + (c.arg + 24) \div 25
      [] c.name = "get_rssi_avg"      -> c.arg
      [] OTHER                        -> 1

ReadFrames(c) ==
    CASE c.name = "get_rssi_avg" -> c.arg
      [] c.name \in RequestResponseOps \cup OpsOfShape("cmd_rd")
              \cup {"write_checked", "rd_rx_buffer_to", "ce_derive_key", "get_rssi_inst"} -> 1
      [] OTHER -> 0

\* C14: no bus phase of a call is performed more than once: a call asserts
\* chip-select at most once per request and per response it issues, transfers
\* each at most once and checks the outcome at most once; after a transport, pin
\* or timeout failure the call has returned and nothing was re-issued, and a
\* command-outcome error is returned by the check that ends the call (or by the
\* rejection of the arguments, before any bus activity).
C14_ExactlyOnce ==
    /\ Count("assert_w") <= WriteFrames(call)
    /\ Count("xfer_w") <= WriteFrames(call) + (IF call.name = "wr_tx_buffer" THEN 1 ELSE 0)
    /\ Count("assert_r") <= ReadFrames(call)
    /\ Count("xfer_r") <= ReadFrames(call)
    /\ Count("ready") + Count("timeout") <= WriteFrames(call)
    /\ Count("check") <= 1
    /\ Count("xfer_fail") + Count("pin_fail") + Count("timeout") <= 1
    /\ \A i \in 1 .. Len(trace) :
            trace[i] \in FailEvents =>
                /\ Returned
                /\ \A j \in i + 1 .. Len(trace) : trace[j] = "release" /\ j = i + 1
    /\ (Returned /\ result \in {"Err_CmdFail", "Err_CmdErr", "Err_Unknown"}) =>
            (trace = <<>> \/ LastEvent = "check")

C14_Witness ==
    /\ call = [name |-> "rd_mem", arg |-> 40]
    /\ Returned /\ result = "Err_Spi"
    /\ trace = <<"assert_w", "xfer_w", "release", "ready", "assert_r", "xfer_fail">>

\* The wrappers that sequence several transactions or steps
SequencingOps ==
    {"set_dio_rf_switch", "gnss_updt_almanac", "get_rssi_avg", "rd_rx_buffer",
     "gnss_get_warm_start_sv", "ce_process_join_accept", "set_rx_continous"}
    \cup WifiGetters

\* C15: in every wrapper that sequences several transactions, set_dio_rf_switch,
\* gnss_updt_almanac, get_rssi_avg and the write / wait_ready / response-read
\* wrappers, the first failing step's error is the wrapper's result and no later
\* transaction is issued; the wrapper succeeds only when no step failed and every
\* transaction was issued.
C15_FirstErrorReturned ==
    call.name \in SequencingOps =>
        /\ \A i \in 1 .. Len(trace) :
                trace[i] \in FailEvents =>
                    /\ Returned /\ result = ErrorOf(trace[i])
                    /\ \A j \in i + 1 .. Len(trace) : trace[j] \notin {"assert_w", "assert_r"}
        /\ (Returned /\ result = "Ok") =>
                /\ \A i \in 1 .. Len(trace) : trace[i] \notin FailEvents
                /\ Count("xfer_w") = WriteFrames(call)
                /\ Count("xfer_r") = ReadFrames(call)

C15_Witness ==
    /\ call.name = "set_dio_rf_switch"
    /\ Returned /\ result = "Err_Spi"
    /\ trace = <<"assert_w", "xfer_w", "release", "assert_w", "xfer_fail", "release">>

InWait == Running /\ Cur.i = "wait"

\* What a wait_ready on a busy pin has done so far, and what it returned
WaitReadyOutcome ==
    busyPin =>
        /\ InWait => (elapsed <= Cur.t /\ polls = elapsed)
        /\ LastEvent = "ready" =>
                (~need.stuck /\ need.busy <= WaitBudget /\ polls = need.busy + 1)
        /\ LastEvent = "timeout" =>
                /\ need.stuck \/ need.busy > WaitBudget
                /\ polls = WaitBudget + 1
                /\ Returned /\ result = "Err_BusyTimeout"
                /\ result \notin {"Err_Spi", "Err_Pin"}
        /\ (Returned /\ result = "Err_BusyTimeout") => LastEvent = "timeout"
        /\ (call.name = "set_rx" /\ Returned /\ result = "Ok") =>
                (IF call.arg = 1 THEN LastEvent = "ready" ELSE ~HasEvent("ready"))

\* C16: wait_ready with a dedicated busy pin always ends, after at most
\* timeout + 1 samples of the pin: it succeeds iff the pin is sampled ready before
\* the timeout has elapsed, and otherwise returns the timeout error, which is
\* neither the transport error nor the pin error.
C16_WaitReadyTerminates ==
    /\ []WaitReadyOutcome
    /\ (busyPin /\ InWait) ~> ~InWait

C16_Witness ==
    /\ busyPin
    /\ call = [name |-> "set_rx", arg |-> 1]
    /\ need = [busy |-> 3, stuck |-> FALSE]
    /\ Returned /\ result = "Ok"
    /\ LastEvent = "ready" /\ polls = 4

\* C17: without a dedicated busy pin, wait_ready reports ready after its fixed
\* delay for every timeout value and whatever the chip does: no call returns the
\* timeout error.
C17_FallbackNeverTimesOut ==
    ~busyPin =>
        /\ ~HasEvent("timeout")
        /\ result # "Err_BusyTimeout"
        /\ \A i \in 1 .. Len(trace) : trace[i] = "ready" => polls = 0

C17_Witness ==
    /\ ~busyPin
    /\ call.name = "rd_rx_buffer"
    /\ need.stuck
    /\ LastEvent = "ready"

\* C18: the chip-select frames of successive transactions never interleave:
\* chip-select is asserted for a frame only after the frame before it was
\* released, and once a call has returned every frame it asserted has been
\* released, so that the next transaction starts with its own frame (a failure of
\* the pin itself is left aside).
C18_FramesDoNotInterleave ==
    /\ \A i \in 2 .. Len(trace) :
            trace[i] \in {"assert_w", "assert_r"} => trace[i - 1] \in {"release", "ready"}
    /\ (Returned /\ LastEvent # "pin_fail") =>
            /\ Count("release") = Count("assert_w") + Count("assert_r")
            /\ nss = "high"

InReadPhase == spi = "active" /\ Running /\ Cur.i = "xfer" /\ Cur.ph = "read"

\* C19 as stated: during every read phase the bytes shifted out are all zero,
\* for reads into the internal buffer and into a caller-provided buffer alike.
C19_Original ==
    InReadPhase => mosi = "zero"

\* C19 amended: a read phase into the internal buffer (rd_mem, rsp_rd) shifts out
\* zero bytes only, the region being zero-filled before the transfer; a read into
\* a caller-provided buffer (rd_rx_buffer_to) shifts out the buffer as the caller
\* passed it: zero bytes iff the caller zeroed it.
C19_ReadShiftsZero ==
    InReadPhase =>
        IF call.name = "rd_rx_buffer_to"
        THEN mosi = "zero" <=> call.arg = 1
        ELSE mosi = "zero"

C19_Witness ==
    /\ InReadPhase
    /\ call = [name |-> "rd_rx_buffer_to", arg |-> 0]
    /\ mosi = "data"

\* Methods made of plain writes only
WriteOps ==
    {"clear_irqs", "set_dio_rf_switch", "wr_tx_buffer_from", "wr_tx_buffer", "wr_field",
     "set_lora_sidedet_cfg", "set_lora_sidedet_syncword"}
    \cup OpsOfShape("cmd_wr") \cup OpsOfShape("cmd_data_wr")

\* C20: a plain write returns success whenever its chip-select and bus operations
\* succeeded (every frame of the call was asserted, transferred and released),
\* whatever command outcome the status shifted back during the transfer decodes
\* to; rd_mem goes on to its wait and read after such a write;
\* a command-outcome error is returned only by a call that checks the status
\* (write_checked, rd_mem) or rejects its arguments.
C20_WriteUnchecked ==
    /\ (call.name \in WriteOps /\ Returned
            /\ Count("release") = WriteFrames(call)
            /\ \A i \in 1 .. Len(trace) : trace[i] \notin FailEvents) => result = "Ok"
    /\ (call.name = "rd_mem" /\ trace = <<"assert_w", "xfer_w", "release">>) =>
            (result = "none" /\ Running /\ Cur.i = "wait")
    /\ (Returned /\ result \in {"Err_CmdFail", "Err_CmdErr", "Err_Unknown"}) =>
            (HasEvent("check") \/ trace = <<>>)

C20_Witness ==
    /\ call.name = "clear_irqs"
    /\ Returned /\ result = "Ok"
    /\ Status_cmd(cmd_status) = "Fail"
    /\ trace = <<"assert_w", "xfer_w", "release">>

\* C21: a failing bus transfer makes the call return the transport (Spi) error
\* and a failing chip-select assert or release makes it return the Pin error;
\* neither becomes a success or another error, and the two errors have no other
\* origin.
C21_ErrorKinds ==
    /\ HasEvent("xfer_fail") => (Returned /\ result = "Err_Spi")
    /\ HasEvent("pin_fail") => (Returned /\ result = "Err_Pin")
    /\ result = "Err_Spi" => HasEvent("xfer_fail")
    /\ result = "Err_Pin" => HasEvent("pin_fail")

C21_Witness ==
    /\ call.name = "wr_tx_buffer"
    /\ Returned /\ result = "Err_Spi"
    /\ trace = <<"assert_w", "xfer_w", "xfer_fail">>

\* C23: gnss_updt_almanac sends the header in a frame of its own, then the
\* satellites in frames of at most 25; every satellite is encoded and sent, so
\* the call completes with 1 + ceil(n / 25) request frames for n satellites.
C23_AlmanacFrames ==
    (call.name = "gnss_updt_almanac" /\ Returned) =>
        /\ result # "Panic"
        /\ result = "Ok" => Count("xfer_w") = 1 + (call.arg + 24) \div 25

\* C27: rd_mem with nb32 > 40 returns the command error with no chip-select
\* assertion and no bus transfer; with nb32 <= 40 its read phase transfers
\* exactly 4 * nb32 bytes.
C27_RdMemLength ==
    call.name = "rd_mem" =>
        /\ call.arg > 40 =>
            /\ trace = <<>>
            /\ spi = "idle"
            /\ Returned => result = "Err_CmdErr"
        /\ InReadPhase => (call.arg <= 40 /\ Cur.t = 4 * call.arg)

C27_Witness ==
    /\ call = [name |-> "rd_mem", arg |-> 40]
    /\ InReadPhase
    /\ Cur.t = 160

\* C28: ce_derive_key returns InvalidParam with no bus activity exactly when the
\* source key is neither Nwk, App nor one of GpKe0..GpKe5, or the destination
\* key is Nwk or App; for every other pair it issues one request frame and one
\* response frame and never returns InvalidParam.
C28_DeriveKeyGuard ==
    call.name = "ce_derive_key" =>
        LET src == call.arg \div 32
            dst == call.arg % 32
            rejected == src \notin {2, 3, 6, 7, 8, 9, 10, 11} \/ dst \in {2, 3}
        IN  /\ rejected =>
                /\ trace = <<>>
                /\ spi = "idle"
                /\ Returned => result = "Err_InvalidParam"
            /\ ~rejected =>
                /\ result # "Err_InvalidParam"
                /\ Count("assert_w") <= 1 /\ Count("assert_r") <= 1
                /\ (Returned /\ result = "Ok") =>
                    (Count("xfer_w") = 1 /\ Count("xfer_r") = 1)

C28_Witness ==
    /\ call = [name |-> "ce_derive_key", arg |-> 32 * 6 + 12]
    /\ Returned /\ result = "Ok"
    /\ Count("xfer_w") = 1 /\ Count("xfer_r") = 1

\* C29: ce_process_join_accept returns InvalidParam with no bus activity unless
\* the data length minus the header length (1 byte for LoRaWAN 1.0, 12 for 1.1,
\* 0 when the data is shorter) is 16 or 32; when accepted, the response read
\* asks for exactly that many payload bytes and starts only after the readiness
\* wait has ended.
C29_JoinAcceptLength ==
    call.name = "ce_process_join_accept" =>
        LET len == call.arg % 100
            hdr == IF call.arg \div 100 = 0 THEN 1 ELSE 12
            payload == IF len >= hdr THEN len - hdr ELSE 0
        IN  /\ payload \notin {16, 32} =>
                /\ trace = <<>>
                /\ spi = "idle"
                /\ Returned => result = "Err_InvalidParam"
            /\ payload \in {16, 32} =>
                /\ result # "Err_InvalidParam"
                /\ HasEvent("assert_r") => HasEvent("ready")
                /\ InReadPhase => Cur.t = payload

C29_Witness ==
    /\ call = [name |-> "ce_process_join_accept", arg |-> 128]
    /\ InReadPhase
    /\ Cur.t = 16
    /\ HasEvent("ready")

(***************************************************************************)
(* Claims on the streamed read (checked under SpecStream)                  *)
(***************************************************************************)
Offsets(n) == [k \in 1 .. n |-> k - 1]

\* Chunks are at most chunk_budget bytes, each starts where the previous one
\* ended, only the last one can have failed, and the bytes returned are those
\* of the successful chunks, in order: all total_len bytes on success, the
\* bytes before the failing chunk on error
StreamSafety ==
    /\ \A i \in 1 .. Len(fout.chunks) :
        /\ fout.chunks[i].len <= fin.budget
        /\ fout.chunks[i].index = (IF i = 1 THEN 0
                                   ELSE fout.chunks[i - 1].index + fout.chunks[i - 1].len)
        /\ i < Len(fout.chunks) => fout.chunks[i].ok
    /\ fout.status = "Ok" =>
        /\ fout.data = Offsets(fin.total)
        /\ \A i \in 1 .. Len(fout.chunks) : fout.chunks[i].ok
    /\ fout.status = "Err" =>
        /\ fout.data = Offsets(fout.index)
        /\ Len(fout.chunks) < MaxTotal + 1 =>
            /\ fout.chunks # <<>>
            /\ ~fout.chunks[Len(fout.chunks)].ok
            /\ fout.chunks[Len(fout.chunks)].index = fout.index
    /\ fout.status = "Running" =>
        /\ \A i \in 1 .. Len(fout.chunks) : fout.chunks[i].ok
        /\ fout.data = Offsets(fout.index)

\* C22 as stated: read_streaming terminates for every total_len and
\* chunk_budget, issuing chunks of at most chunk_budget bytes with an advancing
\* index until exactly total_len bytes are retrieved, and a failing chunk ends
\* the read with the bytes of the chunks before it.
C22_Original ==
    []StreamSafety /\ <>(fout.status # "Running")

\* C22 (amended): the same, with termination for chunk_budget >= 1 or
\* total_len = 0; chunks of at most 0 bytes never retrieve a non-empty result.
C22_StreamTerminates ==
    /\ []StreamSafety
    /\ (fin.budget >= 1 \/ fin.total = 0) => <>(fout.status # "Running")

C22_Witness ==
    /\ fin.total = 5 /\ fin.budget = 2
    /\ fout.status = "Err"
    /\ Len(fout.chunks) = 3
    /\ fout.data = <<0, 1, 2, 3>>

(***************************************************************************)
(* Claims on the almanac encoder (checked under SpecAlmanac)               *)
(***************************************************************************)
\* C24: AlmanacSv::to_bytes never indexes out of bounds, and on a 20-byte
\* buffer it writes sv_id, content[0..14], ca_code big-endian, modulation and
\* const_id at bytes 0, 1..15, 16..17, 18 and 19.
C24_WholeStructure ==
    fout # <<>> =>
        /\ ~fout.panic
        /\ Len(fin.buffer) = 20 =>
            fout.bytes = <<fin.sv.sv_id>> \o fin.sv.content
                         \o <<fin.sv.ca_code \div 256, fin.sv.ca_code % 256,
                              fin.sv.modulation, fin.sv.const_id>>

(***************************************************************************)
(* Claims on the Wi-Fi result getters and on get_rssi_avg (checked under   *)
(* Spec)                                                                   *)
(***************************************************************************)
\* C25: for every nb in 0..255 the iterator returned by a Wi-Fi result getter
\* yields only results lying inside the nb_byte bytes that were read, and ends
\* with None without indexing past that slice.
C25_IterWithinSlice ==
    (call.name \in WifiGetters /\ fout # <<>>) =>
        /\ fout.status # "Panic"
        /\ fout.index <= fout.len
        /\ fout.status = "None" =>
            fout.yielded * WifiResultSize(fout.fmt) = WifiNbByte(fout.fmt, call.arg)

RECURSIVE Sum(_)
Sum(q) == IF q = <<>> THEN 0 ELSE q[1] + Sum(Tail(q))

\* C26: get_rssi_avg(nb_meas) never divides by zero nor overflows its 16-bit
\* accumulator, issues exactly nb_meas instantaneous RSSI transactions and
\* returns the mean of their readings rounded to nearest.
C26_MeanOfReadings ==
    call.name = "get_rssi_avg" =>
        /\ result # "Panic"
        /\ fout.rssi = Sum(fout.readings)
        /\ (Returned /\ result = "Ok") =>
            /\ Count("xfer_w") = call.arg /\ Count("xfer_r") = call.arg
            /\ Len(fout.readings) = call.arg
            /\ fout.avg = (2 * Sum(fout.readings) + call.arg) \div (2 * call.arg)

(***************************************************************************)
(* Claims on the register write request (checked under SpecWrReg)          *)
(***************************************************************************)
\* C30: the request of wr_reg(addr, value) holds the address big-endian in
\* bytes 2..5 and the value big-endian in the four bytes that follow, sharing
\* no byte, so that two calls with distinct (addr, value) build distinct
\* requests.
C30_Lossless ==
    /\ \A k \in DOMAIN fout :
        /\ Len(fout[k]) = 10
        /\ SubSeq(fout[k], 3, 6) = Bytes32(fin[k].addr)
        /\ SubSeq(fout[k], 7, 10) = Bytes32(fin[k].value)
    /\ (DOMAIN fout = {"a", "b"} /\ fin.a # fin.b) => fout.a # fout.b

(***************************************************************************)
(* Claims on the status decoder (checked under SpecStatus)                 *)
(***************************************************************************)
\* Result the outcome check must give for a 3-bit command outcome
ExpectedCheck(o) ==
    CASE o = 2 \/ o = 3 -> "Ok"
      [] o = 0          -> "Err_CmdFail"
      [] o = 1          -> "Err_CmdErr"
      [] OTHER          -> "Err_Unknown"

\* C7: for every 16-bit status value the outcome check maps bits 11:9 (bits 3:1
\* of the first byte): 2 and 3 to success, 0 to the fatal-command error, 1 to the
\* invalid-parameter error and 4..7 to the Unknown error.
C7_OutcomeCheck ==
    "array" \in DOMAIN decoded =>
        Status_check(decoded["array"]) = ExpectedCheck((bytes[1] \div 2) % 8)

C7_Witness ==
    /\ bytes = <<10, 255>>
    /\ "array" \in DOMAIN decoded
    /\ Status_check(decoded["array"]) = "Err_Unknown"

\* C8 as stated: status bytes [0x48, 0x00] decode to command_outcome = Ok,
\* interrupt_pending = false and chip_mode = Sleep.
C8_Original ==
    (bytes = <<72, 0>> /\ "array" \in DOMAIN decoded) =>
        /\ Status_cmd(decoded["array"]) = "Ok"
        /\ Status_irq(decoded["array"]) = FALSE
        /\ Status_chip_mode(decoded["array"]) = "Sleep"

\* C8 amended: status bytes [0x48, 0x00] decode to command_outcome = Unknown
\* (bits 11:9 are 100), interrupt_pending = false and chip_mode = Sleep.
C8_Decode4800 ==
    (bytes = <<72, 0>> /\ "array" \in DOMAIN decoded) =>
        /\ Status_cmd(decoded["array"]) = "Unknown"
        /\ Status_irq(decoded["array"]) = FALSE
        /\ Status_chip_mode(decoded["array"]) = "Sleep"

C8_Witness ==
    /\ bytes = <<72, 0>>
    /\ "array" \in DOMAIN decoded
    /\ Status_check(decoded["array"]) = "Err_Unknown"

\* C9: for every byte b the status built from the single byte b equals the status
\* built from the two bytes [b, 0] (same outcome, interrupt flag, reset source and
\* chip mode), and a one-element slice [b] decodes to the same status.
C9_ShortFormEquiv ==
    /\ (bytes[2] = 0 /\ {"short", "array"} \subseteq DOMAIN decoded) =>
            /\ decoded["short"] = decoded["array"]
            /\ Fields(decoded["short"]) = Fields(decoded["array"])
    /\ (bytes[2] = 0 /\ {"short", "slice2"} \subseteq DOMAIN decoded) =>
            Fields(decoded["short"]) = Fields(decoded["slice2"])
    /\ {"short", "slice1"} \subseteq DOMAIN decoded =>
            /\ decoded["short"] = decoded["slice1"]
            /\ Fields(decoded["short"]) = Fields(decoded["slice1"])

C9_Witness ==
    /\ bytes = <<64, 0>>
    /\ {"short", "array", "slice1"} \subseteq DOMAIN decoded
    /\ decoded["short"] = 16384

\* C10 as stated: for a status built from a single byte b, context() is Flash iff
\* bit 0 of b is 1 and Bootloader otherwise.
C10_Original ==
    "short" \in DOMAIN decoded =>
        (Status_context(decoded["short"]) = "Flash" <=> bytes[1] % 2 = 1)

\* C10 amended: context() is Flash iff bit 0 of the 16-bit status word is 1, which
\* is bit 0 of the second byte of the two-byte form; a status built from a single
\* byte b has its low byte forced to zero, so its context() is Bootloader for
\* every b.
C10_ContextLowBit ==
    /\ "short" \in DOMAIN decoded => Status_context(decoded["short"]) = "Bootloader"
    /\ "array" \in DOMAIN decoded =>
            (Status_context(decoded["array"]) = "Flash" <=> bytes[2] % 2 = 1)

C10_Witness ==
    /\ bytes[1] = 1
    /\ "short" \in DOMAIN decoded
    /\ Status_context(decoded["short"]) = "Bootloader"

\* The defined values of the four fields, by their bit pattern
OutcomeOf == [o \in 0 .. 3 |->
    CASE o = 0 -> "Fail" [] o = 1 -> "PErr" [] o = 2 -> "Ok" [] OTHER -> "Data"]

ResetOf == [r \in 0 .. 6 |->
    CASE r = 0 -> "Cleared" [] r = 1 -> "Analog" [] r = 2 -> "External"
      [] r = 3 -> "System" [] r = 4 -> "Watchdog" [] r = 5 -> "Iocd" [] OTHER -> "Rtc"]

ModeOf == [m \in 0 .. 6 |->
    CASE m = 0 -> "Sleep" [] m = 1 -> "Rc" [] m = 2 -> "Xosc" [] m = 3 -> "Fs"
      [] m = 4 -> "Rx" [] m = 5 -> "Tx" [] OTHER -> "Loc"]

\* Two big-endian bytes holding outcome o in bits 11:9, interrupt flag i in bit 8,
\* reset source r in bits 7:4 and chip mode m in bits 2:0
PackStatus(o, i, r, m) == <<o * 2 + i, r * 16 + m>>

\* C11: for every defined command outcome, interrupt-pending flag, reset source
\* (Cleared..Rtc) and chip mode (Sleep..LocMode), the two big-endian bytes that
\* pack them into bits 11:9, 8, 7:4 and 2:0 decode to exactly those four fields.
C11_RoundTrip ==
    LET o == bytes[1] \div 2
        i == bytes[1] % 2
        r == bytes[2] \div 16
        m == bytes[2] % 8
    IN  ("array" \in DOMAIN decoded /\ o <= 3 /\ r <= 6 /\ m <= 6
            /\ bytes = PackStatus(o, i, r, m)) =>
            Fields(decoded["array"]) =
                [cmd |-> OutcomeOf[o], irq |-> (i = 1), rst |-> ResetOf[r], mode |-> ModeOf[m]]

C11_Witness ==
    /\ bytes = PackStatus(3, 1, 6, 6)
    /\ "array" \in DOMAIN decoded
    /\ Fields(decoded["array"]) = [cmd |-> "Data", irq |-> TRUE, rst |-> "Rtc", mode |-> "Loc"]

(***************************************************************************)
(* Claims on the interrupt decoder (checked under SpecIntr)                *)
(***************************************************************************)
\* The documented bit of each single-event accessor
EventBit ==
    [tx_done |-> 2, rx_done |-> 3, preamble_detected |-> 4, sw_header_valid |-> 5,
     header_err |-> 6, crc_error |-> 7, cad_done |-> 8, cad_detected |-> 9,
     timeout |-> 10, lrfhss_hop |-> 11, low_bat |-> 21, cmd |-> 22, error |-> 23,
     len_error |-> 24, addr_error |-> 25, rx_timestamp |-> 27]

Events == DOMAIN EventBit

Accessor(e, v) ==
    CASE e = "tx_done"           -> Intr_tx_done(v)
      [] e = "rx_done"           -> Intr_rx_done(v)
      [] e = "preamble_detected" -> Intr_preamble_detected(v)
      [] e = "sw_header_valid"   -> Intr_sw_header_valid(v)
      [] e = "header_err"        -> Intr_header_err(v)
      [] e = "crc_error"         -> Intr_crc_error(v)
      [] e = "cad_done"          -> Intr_cad_done(v)
      [] e = "cad_detected"      -> Intr_cad_detected(v)
      [] e = "timeout"           -> Intr_timeout(v)
      [] e = "lrfhss_hop"        -> Intr_lrfhss_hop(v)
      [] e = "low_bat"           -> Intr_low_bat(v)
      [] e = "cmd"               -> Intr_cmd(v)
      [] e = "error"             -> Intr_error(v)
      [] e = "len_error"         -> Intr_len_error(v)
      [] e = "addr_error"        -> Intr_addr_error(v)
      [] e = "rx_timestamp"      -> Intr_rx_timestamp(v)
      [] e = "rx_error"          -> Intr_rx_error(v)

\* Bit k (0 = least significant) of a 4-byte big-endian word
BitOfBytes(b, k) == (b[4 - (k \div 8)] \div (2 ^ (k % 8))) % 2 = 1

\* C12: for every 4-byte big-endian interrupt input each event accessor is true
\* iff its documented bit is set, whatever the other bits are (rx_error: iff one
\* of the header, CRC, length or address error bits is set); the word 0x00000408
\* gives rx_done and timeout true and every other event accessor false.
C12_AccessorBits ==
    "a" \in DOMAIN intr =>
        /\ \A e \in Events : Accessor(e, intr["a"]) <=> BitOfBytes(snap.a, EventBit[e])
        /\ Intr_rx_error(intr["a"]) <=> \E k \in {6, 7, 24, 25} : BitOfBytes(snap.a, k)
        /\ snap.a = <<0, 0, 4, 8>> =>
                /\ \A e \in Events : Accessor(e, intr["a"]) <=> e \in {"rx_done", "timeout"}
                /\ ~Intr_rx_error(intr["a"])
                /\ ~Intr_none(intr["a"])

C12_Witness ==
    /\ snap.a = <<0, 0, 4, 8>>
    /\ "a" \in DOMAIN intr
    /\ Intr_rx_done(intr["a"]) /\ Intr_timeout(intr["a"]) /\ ~Intr_tx_done(intr["a"])

\* Masks handed to intr_match: none, every bit, the documented composite masks
\* and the events without an accessor of their own
Masks ==
    {Zero32, U32(65535, 65535), IRQ_MASK_RX_ERROR, IRQ_MASK_LORA_TXRX,
     IRQ_MASK_GNSS_DONE, IRQ_MASK_WIFI_DONE, IRQ_MASK_GNSS_ABORT}

\* C13: for any two interrupt snapshots a and b, every event accessor f and
\* intr_match with any mask, f(a OR b) = f(a) or f(b).
C13_OrCommutes ==
    "or" \in DOMAIN intr =>
        /\ \A e \in Events \cup {"rx_error"} :
                Accessor(e, intr["or"]) <=> (Accessor(e, intr["a"]) \/ Accessor(e, intr["b"]))
        /\ \A mask \in Masks :
                Intr_intr_match(intr["or"], mask) <=>
                    (Intr_intr_match(intr["a"], mask) \/ Intr_intr_match(intr["b"], mask))

C13_Witness ==
    /\ "or" \in DOMAIN intr
    /\ intr["a"] = IRQ_MASK_HEADER_ERR
    /\ intr["b"] = IRQ_MASK_ADDR_ERROR
    /\ intr["or"] = U32(512, 64)
    /\ Intr_rx_error(intr["or"])

====
